---------------------------- MODULE Spec2Model ----------------------------
(***************************************************************************)
(* A model of brnn_sequence_analyzer.py: the windowing and one-hot         *)
(* encoding of get_data, the temperature sampling of                       *)
(* SequenceAnalyzer.sample, and the training / generation loop of train.   *)
(*                                                                         *)
(* Python lists are TLA+ sequences; a Python index i is the TLA+ index     *)
(* i + 1.  numpy vectors and one-hot rows are functions on 0 .. n-1.       *)
(* Arithmetic on probabilities is exact (rationals kept as integer         *)
(* numerators over a common denominator); floating-point rounding is not   *)
(* modelled.                                                               *)
(***************************************************************************)
EXTENDS Integers, Sequences, FiniteSets, TLC

\* ------------------------------------------------------------ bounds
\* largest id that occurs in the train_data file
MaxId == 2
\* longest train_data file for the get_data specification
MaxSeqLen == 5
\* largest sentence_length for the get_data specification
MaxSentLen == 3
\* largest step for the get_data specification
MaxStep == 2
\* longest probability vector handed to sample
MaxProbLen == 3
\* largest numerator of an entry of a probability vector
MaxWeight == 3
\* the temperatures are 1/1, 1/2, ... 1/MaxInvT (the code uses 0.2 and 0.5)
MaxInvT == 5
\* largest id of the train_data file for the train specifications
TrainMaxId == 0
\* longest train_data file for the train specifications
TrainMaxSeqLen == 3
\* largest sentence_length for the train specifications
TrainMaxSentLen == 2
\* largest nb_iterations, nb_epoch and nb_predictions
MaxIterations == 2
MaxEpoch == 1
MaxPredictions == 3
\* the same for the train specification with fairness, whose runs are
\* checked for termination: fewer iterations and predictions
FairMaxIterations == 1
FairMaxPredictions == 2
\* the validation losses fit reports are 1 .. MaxLoss
MaxLoss == 2
\* largest numerator of an entry of the vector predict returns
MaxPredictWeight == 1

VARIABLES
    \* ---- get_data
    sequence,         \* the ids read from train_data (line 140)
    sentence_length,  \* parameter of get_data
    step,             \* parameter of get_data
    vocab_size,       \* line 143
    sentences,        \* line 146
    next_ids,         \* line 148
    X_train,          \* line 164
    y_train,          \* line 167
    i,                \* the loop variable of lines 152 and 156
    dpc,              \* position in get_data
    \* ---- SequenceAnalyzer.sample
    prob,             \* the argument prob: numerators over a denominator
    temperature,      \* the argument temperature, a fraction num/den
    rescaled,         \* prob after line 107
    counts,           \* the array np.random.multinomial returns
    ret,              \* the value sample returns
    spc,              \* position in sample
    \* ---- train
    nb_iterations,    \* parameters of train
    nb_epoch,
    nb_predictions,
    iteration,        \* the loop variable of line 226
    epoch,            \* the epochs fit has run in this iteration
    best,             \* checkpointer.best, the lowest val_loss it has seen
    weights_file,     \* weights.hdf5: the epoch whose weights it holds
    start_index,      \* line 247
    t_index,          \* the position of T in t_list (line 253)
    window,           \* the list object the slice of line 255 creates
    sentence,         \* the name sentence: the list object it is bound to
    generated,        \* the name generated: the list object it is bound to
    stdout_line,      \* the ids written on the current "Generated:" line
    seed,             \* the tensor of line 264, as filled by lines 266-267
    predicted,        \* the passes of the loop of line 263 made so far
    pc,               \* position in train
    \* ---- history of the run, read by the properties only
    loaded,           \* the sequence as get_data returned it
    epochs_run,       \* the epochs run so far in all iterations
    run_best,         \* the first epoch of the run with the lowest val_loss
    nb_samples        \* the calls of sample made so far

dataVars == <<sequence, sentence_length, step, vocab_size, sentences,
              next_ids, X_train, y_train, i, dpc>>

sampleVars == <<prob, temperature, rescaled, counts, ret, spc>>

trainVars == <<nb_iterations, nb_epoch, nb_predictions, iteration, epoch,
               best, weights_file, start_index, t_index, window, sentence,
               generated, stdout_line, seed, predicted, pc, loaded,
               epochs_run, run_best, nb_samples>>

vars == <<dataVars, sampleVars, trainVars>>

\* ------------------------------------------------------------ helpers
Min(a, b) == IF a < b THEN a ELSE b

RECURSIVE MaxOf(_)
\* Python's max() of a non-empty list
MaxOf(s) ==
    IF Len(s) = 1 THEN s[1]
    ELSE LET m == MaxOf(Tail(s)) IN IF s[1] > m THEN s[1] ELSE m

\* all sequences over S of length lo .. hi
SeqsOf(S, lo, hi) == UNION {[1..n -> S] : n \in lo..hi}

\* Python's s[lo:hi] for 0 <= lo: a new list, the bounds clipped to len(s)
Slice(s, lo, hi) == SubSeq(s, lo + 1, Min(hi, Len(s)))

\* [0 for _ in range(0, n)]
Zeros(n) == [k \in 1..n |-> 0]

\* ------------------------------------------------------------ get_data
VocabSizeNoSentinels(seq) == MaxOf(seq)
\* line 143: two extra positions for 'unknown-log' and 'no-log'
VocabSize(seq) == MaxOf(seq) + 2

\* lines 153-154: the ramp-up window of loop index k
RampWindow(seq, len, k) == Zeros(len - k) \o Slice(seq, 0, k)

SlideWindowShifted(seq, len, k) == Slice(seq, k + 1, k + 1 + len)
\* line 157: the full window of loop index k
SlideWindow(seq, len, k) == Slice(seq, k, k + len)

\* lines 164-165 and 169-172: np.zeros, then X_train[w, t, id_] = 1 for each
\* (t, id_) of enumerate(sentence); a row is a boolean vector on 0 .. vocab-1
EncodeX(sents, len, vocab) ==
    [w \in 1..Len(sents) |->
        [t \in 1..len |->
            [v \in 0..(vocab - 1) |->
                t <= Len(sents[w]) /\ sents[w][t] = v]]]

\* lines 167 and 174: np.zeros, then y_train[w, next_ids[w]] = 1
EncodeY(sents, nexts, vocab) ==
    [w \in 1..Len(sents) |-> [v \in 0..(vocab - 1) |-> nexts[w] = v]]

NoTensor == <<>>

DataStart ==
    /\ sequence \in SeqsOf(0..MaxId, 1, MaxSeqLen)
    /\ sentence_length \in 1..MaxSentLen
    /\ step \in 1..MaxStep
    /\ vocab_size = VocabSize(sequence)
    /\ sentences = <<>>
    /\ next_ids = <<>>
    /\ X_train = NoTensor
    /\ y_train = NoTensor
    /\ i = 0
    /\ dpc = "rampup"

\* lines 152-155: one pass of the first loop.  The window is appended before
\* sequence[i] is read, so an IndexError leaves it without a next id.
RampUp ==
    /\ dpc = "rampup"
    /\ i < sentence_length
    /\ sentences' = Append(sentences, RampWindow(sequence, sentence_length, i))
    /\ IF i < Len(sequence)
       THEN /\ next_ids' = Append(next_ids, sequence[i + 1])
            /\ i' = i + step
            /\ dpc' = dpc
       ELSE /\ dpc' = "IndexError"
            /\ UNCHANGED <<next_ids, i>>
    /\ UNCHANGED <<sequence, sentence_length, step, vocab_size, X_train, y_train>>
    /\ UNCHANGED <<sampleVars, trainVars>>

\* the first loop's range is exhausted; line 156 starts the second at 0
RampUpEnd ==
    /\ dpc = "rampup"
    /\ i >= sentence_length
    /\ i' = 0
    /\ dpc' = "slide"
    /\ UNCHANGED <<sequence, sentence_length, step, vocab_size, sentences,
                   next_ids, X_train, y_train>>
    /\ UNCHANGED <<sampleVars, trainVars>>

\* lines 156-158: one pass of the second loop
Slide ==
    /\ dpc = "slide"
    /\ i < Len(sequence) - sentence_length
    /\ sentences' = Append(sentences, SlideWindow(sequence, sentence_length, i))
    /\ next_ids' = Append(next_ids, sequence[i + sentence_length + 1])
    /\ i' = i + step
    /\ UNCHANGED <<sequence, sentence_length, step, vocab_size, X_train,
                   y_train, dpc>>
    /\ UNCHANGED <<sampleVars, trainVars>>

\* lines 160-176: the second loop's range is exhausted; build the tensors
\* and return
Encode ==
    /\ dpc = "slide"
    /\ i >= Len(sequence) - sentence_length
    /\ X_train' = EncodeX(sentences, sentence_length, vocab_size)
    /\ y_train' = EncodeY(sentences, next_ids, vocab_size)
    /\ dpc' = "done"
    /\ UNCHANGED <<sequence, sentence_length, step, vocab_size, sentences,
                   next_ids, i>>
    /\ UNCHANGED <<sampleVars, trainVars>>

\* ------------------------------------------------------------ sample
\* A probability vector is [num |-> f, den |-> d]: entry k is f[k] / d, for
\* f a function on 0 .. n-1.  A temperature is [num |-> a, den |-> b], a / b.

RECURSIVE Pow(_, _)
Pow(b, e) == IF e = 0 THEN 1 ELSE b * Pow(b, e - 1)

RECURSIVE SumTo(_, _)
\* f[0] + ... + f[n]
SumTo(f, n) == IF n < 0 THEN 0 ELSE f[n] + SumTo(f, n - 1)

\* np.sum of a vector on 0 .. n-1
Sum(f) == SumTo(f, Cardinality(DOMAIN f) - 1)

\* the probability vectors of n entries with numerators 0 .. w
ProbVectors(n, w) ==
    {[num |-> f, den |-> Sum(f)] : f \in {g \in [0..(n - 1) -> 0..w] : Sum(g) > 0}}

\* line 106 and the np.exp of line 107, for a temperature 1/b:
\* exp(log(p) / T) = p^b, entry by entry; log(0) is -inf and exp(-inf) is 0
ExpLogOverT(p, T) ==
    [num |-> [k \in DOMAIN p.num |-> Pow(p.num[k], T.den)],
     den |-> Pow(p.den, T.den)]

\* line 107: e / np.sum(e); the common denominator of e cancels
Normalize(e) == [num |-> e.num, den |-> Sum(e.num)]

\* lines 106-107
Rescale(p, T) == Normalize(ExpLogOverT(p, T))

\* a count vector with one trial, fallen on index j
OneHot(dom, j) == [k \in dom |-> IF k = j THEN 1 ELSE 0]

MultinomialAnyIndex(q) == {OneHot(DOMAIN q.num, j) : j \in DOMAIN q.num}
\* line 108: the outcomes of np.random.multinomial(1, q, 1): the one trial
\* falls on an index of non-zero probability
Multinomial(q) ==
    {OneHot(DOMAIN q.num, j) : j \in {k \in DOMAIN q.num : q.num[k] > 0}}

\* line 108: np.argmax, the first index that holds the largest value
ArgMax(c) ==
    CHOOSE k \in DOMAIN c :
        /\ \A m \in DOMAIN c : c[m] <= c[k]
        /\ \A m \in DOMAIN c : c[m] = c[k] => k <= m

\* the values sample(p, T) can return
SampleOutcomes(p, T) == {ArgMax(c) : c \in Multinomial(Rescale(p, T))}

None == "None"

SampleStart ==
    /\ \E n \in 1..MaxProbLen : prob \in ProbVectors(n, MaxWeight)
    /\ temperature \in {[num |-> 1, den |-> b] : b \in 1..MaxInvT}
    /\ rescaled = None
    /\ counts = None
    /\ ret = None
    /\ spc = "called"

SampleIdle ==
    /\ prob = None
    /\ temperature = None
    /\ rescaled = None
    /\ counts = None
    /\ ret = None
    /\ spc = "idle"

\* lines 106-107
SampleRescale ==
    /\ spc = "called"
    /\ rescaled' = Rescale(prob, temperature)
    /\ spc' = "rescaled"
    /\ UNCHANGED <<prob, temperature, counts, ret>>
    /\ UNCHANGED <<dataVars, trainVars>>

\* line 108
SampleDraw ==
    /\ spc = "rescaled"
    /\ counts' \in Multinomial(rescaled)
    /\ ret' = ArgMax(counts')
    /\ spc' = "returned"
    /\ UNCHANGED <<prob, temperature, rescaled>>
    /\ UNCHANGED <<dataVars, trainVars>>

DataIdle ==
    /\ sequence = <<>>
    /\ sentence_length = 0
    /\ step = 0
    /\ vocab_size = 0
    /\ sentences = <<>>
    /\ next_ids = <<>>
    /\ X_train = NoTensor
    /\ y_train = NoTensor
    /\ i = 0
    /\ dpc = "idle"

\* ------------------------------------------------------------ train
\* get_data returns when every sequence[k] read by the ramp-up loop exists
GetDataReturns(seq, len, st) ==
    \A k \in 0..(len - 1) : (k % st = 0) => k < Len(seq)

\* np.Inf, the first value of ModelCheckpoint.best: above every loss
Inf == MaxLoss + 1

\* start_index before line 247 has run
NoIndex == 0 - 1

\* weights.hdf5 does not exist yet
NoFile == [epoch |-> 0, val_loss |-> Inf]

\* no epoch has run yet
NoEpoch == [epoch |-> 0, val_loss |-> Inf]

\* ModelCheckpoint(save_best_only=True) at the end of an epoch (lines
\* 236-237, run by fit): np.less(val_loss, best)
Less(current, b) == current < b

\* line 250: 0.2 and 0.5
t_list == <<[num |-> 1, den |-> 5], [num |-> 1, den |-> 2]>>

\* random.randint(lo, hi): both ends included
RandInt(lo, hi) == lo..hi

StartIndicesToLastWindow(seq, len) == RandInt(0, Len(seq) - len)
\* line 247
StartIndices(seq, len) == RandInt(0, Len(seq) - len - 1)

InRangeInclusive(done, n) == done <= n
\* line 263: range(n) has a value left after `done` passes
InRange(done, n) == done < n

\* lines 271-273: predict returns some probability vector over the n ids of
\* the vocabulary (output_len is input_len, line 220) and sample draws from it
\* at the temperature t_list[k]; tabulated over the vocabulary sizes
PredictAndSampleTable ==
    [n \in 1..(TrainMaxId + 2) |->
        [k \in 1..Len(t_list) |->
            UNION {SampleOutcomes(predictions, t_list[k]) :
                      predictions \in ProbVectors(n, MaxPredictWeight)}]]

PredictAndSample(n, k) == PredictAndSampleTable[n][k]

\* The list objects of train: h maps the object's name to its value.
ListAppend(h, ref, x) == [h EXCEPT ![ref] = Append(@, x)]

ListPop0(h, ref) == [h EXCEPT ![ref] = Tail(@)]

\* lines 281-283: generated.append(next_id); sentence.pop(0);
\* sentence.append(next_id)
Lines281to283(h, gen, sen, next_id) ==
    ListAppend(ListPop0(ListAppend(h, gen, next_id), sen), sen, next_id)

\* lines 264-267: np.zeros, then seed[0, t, sentence[t]] = 1 for
\* t in range(0, sentence_length)
EncodeSeed(list, len, vocab) ==
    [t \in 1..len |-> [v \in 0..(vocab - 1) |-> list[t] = v]]

\* lines 200-223: train is called, get_data has returned the sequence and
\* the model is built
TrainStartWithin(maxLen, maxIterations, maxPredictions) ==
    /\ sequence \in SeqsOf(0..TrainMaxId, 1, maxLen)
    /\ sentence_length \in 1..TrainMaxSentLen
    /\ \E st \in 1..MaxStep : GetDataReturns(sequence, sentence_length, st)
    /\ vocab_size = VocabSize(sequence)
    /\ step = 0
    /\ sentences = <<>>
    /\ next_ids = <<>>
    /\ X_train = NoTensor
    /\ y_train = NoTensor
    /\ i = 0
    /\ dpc = "done"
    /\ nb_iterations \in 0..maxIterations
    /\ nb_epoch \in 1..MaxEpoch
    /\ nb_predictions \in 0..maxPredictions
    /\ iteration = 1
    /\ epoch = 0
    /\ best = Inf
    /\ weights_file = NoFile
    /\ start_index = NoIndex
    /\ t_index = 0
    /\ window = <<>>
    /\ sentence = None
    /\ generated = None
    /\ stdout_line = <<>>
    /\ seed = NoTensor
    /\ predicted = 0
    /\ pc = "iteration"
    /\ loaded = sequence
    /\ epochs_run = 0
    /\ run_best = NoEpoch
    /\ nb_samples = 0

TrainStart == TrainStartWithin(TrainMaxSeqLen, MaxIterations, MaxPredictions)

TrainIdle ==
    /\ nb_iterations = 0
    /\ nb_epoch = 0
    /\ nb_predictions = 0
    /\ iteration = 0
    /\ epoch = 0
    /\ best = Inf
    /\ weights_file = NoFile
    /\ start_index = NoIndex
    /\ t_index = 0
    /\ window = <<>>
    /\ sentence = None
    /\ generated = None
    /\ stdout_line = <<>>
    /\ seed = NoTensor
    /\ predicted = 0
    /\ pc = "idle"
    /\ loaded = <<>>
    /\ epochs_run = 0
    /\ run_best = NoEpoch
    /\ nb_samples = 0

\* lines 226-237: the next iteration starts with a new History and a new
\* ModelCheckpoint, whose best is np.Inf
IterationStart ==
    /\ pc = "iteration"
    /\ iteration <= nb_iterations
    /\ best' = Inf
    /\ epoch' = 0
    /\ pc' = "fit"
    /\ UNCHANGED <<nb_iterations, nb_epoch, nb_predictions, iteration,
                   weights_file, start_index, t_index, window, sentence,
                   generated, stdout_line, seed, predicted, loaded,
                   epochs_run, run_best, nb_samples>>
    /\ UNCHANGED <<dataVars, sampleVars>>

\* lines 240-244: fit ends an epoch with some validation loss and runs the
\* checkpointer, which saves the weights when the loss is below its best
EpochEnd ==
    /\ pc = "fit"
    /\ epoch < nb_epoch
    /\ \E val_loss \in 1..MaxLoss :
          /\ IF Less(val_loss, best)
             THEN /\ best' = val_loss
                  /\ weights_file' =
                        [epoch |-> epochs_run + 1, val_loss |-> val_loss]
             ELSE UNCHANGED <<best, weights_file>>
          /\ run_best' =
                IF val_loss < run_best.val_loss
                THEN [epoch |-> epochs_run + 1, val_loss |-> val_loss]
                ELSE run_best
    /\ epoch' = epoch + 1
    /\ epochs_run' = epochs_run + 1
    /\ UNCHANGED <<nb_iterations, nb_epoch, nb_predictions, iteration,
                   start_index, t_index, window, sentence, generated,
                   stdout_line, seed, predicted, pc, loaded, nb_samples>>
    /\ UNCHANGED <<dataVars, sampleVars>>

\* lines 244-253: fit returns; random.randint draws the start of the seed
\* (a ValueError when its range is empty) and the loop over t_list starts
FitReturn ==
    /\ pc = "fit"
    /\ epoch >= nb_epoch
    /\ IF StartIndices(sequence, sentence_length) = {}
       THEN /\ pc' = "ValueError"
            /\ UNCHANGED <<start_index, t_index>>
       ELSE /\ start_index' \in StartIndices(sequence, sentence_length)
            /\ t_index' = 1
            /\ pc' = "temperature"
    /\ UNCHANGED <<nb_iterations, nb_epoch, nb_predictions, iteration, epoch,
                   best, weights_file, window, sentence, generated,
                   stdout_line, seed, predicted, loaded, epochs_run,
                   run_best, nb_samples>>
    /\ UNCHANGED <<dataVars, sampleVars>>

\* lines 253-260: the slice is a new list; sentence and generated are two
\* names of it; the "Generated:" line starts with its ids
TemperatureStart ==
    /\ pc = "temperature"
    /\ t_index <= Len(t_list)
    /\ window' = Slice(sequence, start_index, start_index + sentence_length)
    /\ sentence' = "window"
    /\ generated' = sentence'
    /\ stdout_line' = window'
    /\ predicted' = 0
    /\ pc' = "predict"
    /\ UNCHANGED <<nb_iterations, nb_epoch, nb_predictions, iteration, epoch,
                   best, weights_file, start_index, t_index, seed, loaded,
                   epochs_run, run_best, nb_samples>>
    /\ UNCHANGED <<dataVars, sampleVars>>

\* lines 263-283: one pass of the generation loop: encode the first
\* sentence_length elements of sentence, predict (some probability vector
\* over the vocabulary), sample, write the id, update the lists
PredictStep ==
    /\ pc = "predict"
    /\ InRange(predicted, nb_predictions)
    /\ LET h == [sequence |-> sequence, window |-> window] IN
          /\ seed' = EncodeSeed(h[sentence], sentence_length, vocab_size)
          /\ \E next_id \in PredictAndSample(vocab_size, t_index) :
                /\ stdout_line' = Append(stdout_line, next_id)
                /\ sequence' =
                      Lines281to283(h, generated, sentence, next_id).sequence
                /\ window' =
                      Lines281to283(h, generated, sentence, next_id).window
    /\ predicted' = predicted + 1
    /\ nb_samples' = nb_samples + 1
    /\ UNCHANGED <<nb_iterations, nb_epoch, nb_predictions, iteration, epoch,
                   best, weights_file, start_index, t_index, sentence,
                   generated, pc, loaded, epochs_run, run_best>>
    /\ UNCHANGED <<sentence_length, step, vocab_size, sentences, next_ids,
                   X_train, y_train, i, dpc>>
    /\ UNCHANGED sampleVars

\* line 284: the generation loop is over; on to the next temperature
TemperatureEnd ==
    /\ pc = "predict"
    /\ ~InRange(predicted, nb_predictions)
    /\ t_index' = t_index + 1
    /\ pc' = "temperature"
    /\ UNCHANGED <<nb_iterations, nb_epoch, nb_predictions, iteration, epoch,
                   best, weights_file, start_index, window, sentence,
                   generated, stdout_line, seed, predicted, loaded,
                   epochs_run, run_best, nb_samples>>
    /\ UNCHANGED <<dataVars, sampleVars>>

\* line 287: t_list is exhausted; print_losses ends the iteration
IterationEnd ==
    /\ pc = "temperature"
    /\ t_index > Len(t_list)
    /\ iteration' = iteration + 1
    /\ pc' = "iteration"
    /\ UNCHANGED <<nb_iterations, nb_epoch, nb_predictions, epoch, best,
                   weights_file, start_index, t_index, window, sentence,
                   generated, stdout_line, seed, predicted, loaded,
                   epochs_run, run_best, nb_samples>>
    /\ UNCHANGED <<dataVars, sampleVars>>

\* line 226: range(1, nb_iterations + 1) is exhausted; train returns
TrainReturn ==
    /\ pc = "iteration"
    /\ iteration > nb_iterations
    /\ pc' = "done"
    /\ UNCHANGED <<nb_iterations, nb_epoch, nb_predictions, iteration, epoch,
                   best, weights_file, start_index, t_index, window,
                   sentence, generated, stdout_line, seed, predicted, loaded,
                   epochs_run, run_best, nb_samples>>
    /\ UNCHANGED <<dataVars, sampleVars>>

\* ------------------------------------------------------------ specifications
\* get_data, on every file within the bounds
DataInit == DataStart /\ SampleIdle /\ TrainIdle

DataNext == RampUp \/ RampUpEnd \/ Slide \/ Encode

SpecData == DataInit /\ [][DataNext]_vars

\* one call of sample, on every probability vector within the bounds
SampleInit == SampleStart /\ DataIdle /\ TrainIdle

SampleNext == SampleRescale \/ SampleDraw

SpecSample == SampleInit /\ [][SampleNext]_vars

\* train, from the return of get_data and build_lstm (line 223) on
TrainInit == TrainStart /\ SampleIdle

TrainNext ==
    \/ IterationStart
    \/ EpochEnd
    \/ FitReturn
    \/ TemperatureStart
    \/ PredictStep
    \/ TemperatureEnd
    \/ IterationEnd
    \/ TrainReturn

SpecTrain == TrainInit /\ [][TrainNext]_vars

\* train is one thread of blocking calls, each assumed to return: a step
\* that can be taken is taken
FairTrainInit ==
    /\ TrainStartWithin(TrainMaxSeqLen, FairMaxIterations, FairMaxPredictions)
    /\ SampleIdle

FairSpecTrain == FairTrainInit /\ [][TrainNext]_vars /\ WF_vars(TrainNext)


\* ------------------------------------------------------------ get_data: properties
\* the number of values of Python's range(0, n, st)
RangeCount(n, st) == IF n <= 0 THEN 0 ELSE ((n - 1) \div st) + 1

RampSteps == RangeCount(sentence_length, step)

SlideSteps == RangeCount(Len(sequence) - sentence_length, step)

\* the element at Python position p of the sequence padded on the left with 0
Padded(p) == IF p < 0 THEN 0 ELSE sequence[p + 1]

\* C1: for a sequence longer than sentence_length, get_data returns, in order,
\* the ramp-up windows of i = 0, step, 2*step, ... < sentence_length
\* (sentence_length - i zeros, then sequence[0..i), next id sequence[i]) and
\* then the full windows of i = 0, step, ... < len(sequence) - sentence_length
\* (sequence[i..i+sentence_length), next id sequence[i+sentence_length]); every
\* window has sentence_length elements and its next id is the element that
\* follows the window's last position.
C1_WindowsInOrder ==
    (dpc = "done" /\ Len(sequence) > sentence_length) =>
        /\ Len(sentences) = RampSteps + SlideSteps
        /\ Len(next_ids) = RampSteps + SlideSteps
        /\ \A w \in 1..Len(sentences) : Len(sentences[w]) = sentence_length
        /\ \A k \in 0..(RampSteps - 1) :
              /\ sentences[k + 1] =
                    [t \in 1..sentence_length |->
                        Padded(k * step - sentence_length + t - 1)]
              /\ next_ids[k + 1] = sequence[k * step + 1]
        /\ \A k \in 0..(SlideSteps - 1) :
              /\ sentences[RampSteps + k + 1] =
                    [t \in 1..sentence_length |-> sequence[k * step + t]]
              /\ next_ids[RampSteps + k + 1] =
                    sequence[k * step + sentence_length + 1]

\* a finished run with a step of 2, two ramp-up windows and a full window,
\* on a sequence that starts with a non-zero id
C1_Witness ==
    /\ dpc = "done"
    /\ Len(sequence) > sentence_length
    /\ step = 2
    /\ RampSteps = 2
    /\ SlideSteps >= 1
    /\ sequence[1] # 0
    /\ sequence[2] # sequence[1]

\* C2: for every non-empty sequence, sentence_length >= 1 and step >= 1 the
\* windowing completes, and the windows and the next ids both number the
\* ramp-up steps plus the full sliding steps.
C2_CompletesWithCount ==
    /\ dpc # "IndexError"
    /\ dpc = "done" =>
          /\ Len(sentences) = RampSteps + SlideSteps
          /\ Len(next_ids) = RampSteps + SlideSteps

\* the set of true positions of a boolean vector
Hot(row) == {v \in DOMAIN row : row[v]}

\* C3: in the tensors get_data returns, row X_train[w, t, :] has exactly one
\* true entry, at sentences[w][t] (0 for padding), and y_train[w, :] has
\* exactly one, at next_ids[w]; every index written is in 0 .. vocab_size - 1.
C3_OneHot ==
    dpc = "done" =>
        /\ Len(X_train) = Len(sentences)
        /\ Len(y_train) = Len(sentences)
        /\ \A w \in 1..Len(sentences) :
              /\ next_ids[w] \in 0..(vocab_size - 1)
              /\ Hot(y_train[w]) = {next_ids[w]}
              /\ Len(X_train[w]) = sentence_length
              /\ \A t \in 1..sentence_length :
                    /\ sentences[w][t] \in 0..(vocab_size - 1)
                    /\ Hot(X_train[w][t]) = {sentences[w][t]}

\* tensors of at least two windows: one holds padding, one holds the largest
\* id of the sequence, and the largest id is also a target
C3_Witness ==
    /\ dpc = "done"
    /\ Len(sentences) >= 2
    /\ MaxOf(sequence) > 0
    /\ \E w \in 1..Len(sentences) : \E t \in 1..sentence_length :
          /\ X_train[w][t][MaxOf(sequence)]
          /\ X_train[1][1][0]
    /\ \E w \in 1..Len(sentences) : y_train[w][MaxOf(sequence)]

\* ------------------------------------------------------------ sample: properties
\* C6: for a probability vector and a temperature T > 0, sample rescales prob
\* to q with q[k] = prob[k]^(1/T) / sum_j prob[j]^(1/T) (q is proportional to
\* prob^(1/T), its entries are in [0, 1] and sum to 1), draws exactly one
\* sample and returns its index, which is in 0 .. len(prob) - 1 and has
\* prob[index] > 0.
C6_SampleInSupport ==
    spc = "returned" =>
        /\ DOMAIN rescaled.num = DOMAIN prob.num
        /\ rescaled.den > 0
        /\ \A k \in DOMAIN prob.num :
              rescaled.num[k] >= 0 /\ rescaled.num[k] <= rescaled.den
        /\ Sum(rescaled.num) = rescaled.den
        /\ \A k, m \in DOMAIN prob.num :
              rescaled.num[k] * Pow(prob.num[m], temperature.den) =
                  rescaled.num[m] * Pow(prob.num[k], temperature.den)
        /\ \A k \in DOMAIN counts : counts[k] \in {0, 1}
        /\ Sum(counts) = 1
        /\ ret \in DOMAIN prob.num
        /\ counts[ret] = 1
        /\ prob.num[ret] > 0

\* sample has returned, at temperature 0.2, an index that is not the mode of
\* a three-entry vector with a zero entry
C6_Witness ==
    /\ spc = "returned"
    /\ temperature.den = 5
    /\ Cardinality(DOMAIN prob.num) = 3
    /\ \E k \in DOMAIN prob.num : prob.num[k] = 0
    /\ \E k \in DOMAIN prob.num : prob.num[k] > prob.num[ret]

\* ------------------------------------------------------------ train: properties
\* the seed window of the iteration, cut from the sequence as loaded
SeedWindow == SubSeq(loaded, start_index + 1, start_index + sentence_length)

\* the ids sampled so far in the current temperature run, as written
Sampled == SubSeq(stdout_line, sentence_length + 1, Len(stdout_line))

\* the last n elements of s
LastN(s, n) == SubSeq(s, Len(s) - n + 1, Len(s))

\* C4: at prediction step k of a temperature run the encoded window has
\* sentence_length elements and is the last sentence_length elements of the
\* seed window followed by the k - 1 ids sampled so far: each step slides
\* the window forward by one.
C4_WindowSlidesByOne ==
    (pc = "predict" /\ predicted >= 1) =>
        LET expected ==
                LastN(SeedWindow \o SubSeq(Sampled, 1, predicted - 1),
                      sentence_length)
        IN  /\ Len(seed) = sentence_length
            /\ \A t \in 1..sentence_length : Hot(seed[t]) = {expected[t]}

\* C5: over the whole run, an epoch writes weights.hdf5 exactly when its
\* validation loss is below that of every earlier epoch of the run, so the
\* file holds the weights of the epoch with the lowest validation loss so far.
C5_CheckpointIsBestOfRun ==
    /\ [](weights_file = run_best)
    /\ [][(epochs_run' = epochs_run + 1) =>
            ((weights_file' # weights_file) <=> (run_best' # run_best))]_vars

\* C9: with a sequence longer than sentence_length, train terminates; every
\* temperature run makes exactly nb_predictions predict-and-sample steps and
\* writes exactly nb_predictions ids, nb_iterations * 2 * nb_predictions
\* sampling steps in all.
C9_TerminatesWithCount ==
    /\ (Len(loaded) > sentence_length) ~> (pc = "done")
    /\ []((Len(loaded) > sentence_length /\ pc = "done") =>
             nb_samples = nb_iterations * 2 * nb_predictions)
    /\ []((Len(loaded) > sentence_length /\ pc = "temperature"
             /\ t_index > 1) =>
                /\ predicted = nb_predictions
                /\ Len(Sampled) = nb_predictions)

\* train has returned after an iteration of two predictions at each of the
\* two temperatures
C9_Witness ==
    /\ pc = "done"
    /\ Len(sequence) > sentence_length
    /\ nb_iterations = 1
    /\ nb_predictions = 2
    /\ nb_samples = 4
    /\ Len(Sampled) = 2

\* C10: the start index is in 0 .. len(sequence) - sentence_length - 1, so
\* the seed window is sentence_length elements of the sequence; generation
\* leaves the loaded sequence as it is, and every temperature run of the
\* iteration starts from that same seed window.
C10_SeedWindow ==
    /\ pc # "idle" => sequence = loaded
    /\ pc \in {"temperature", "predict"} =>
          /\ start_index >= 0
          /\ start_index + sentence_length <= Len(loaded) - 1
    /\ (pc = "predict" /\ predicted = 0) =>
          /\ Len(window) = sentence_length
          /\ window = SeedWindow
          /\ sentence = "window"

\* the second temperature run of an iteration starts, after a first run that
\* generated ids, from a seed that is not at the start of the sequence
C10_Witness ==
    /\ pc = "predict"
    /\ predicted = 0
    /\ t_index = 2
    /\ nb_predictions >= 2
    /\ nb_samples >= 2
    /\ start_index >= 1
    /\ window = SeedWindow

=============================================================================
